---- MODULE Spec2Model ----
(***************************************************************************)
(* Model of src/test2.py: the /calculate handler that derives an EFFR path *)
(* from Fed Funds futures quotes and decomposes each meeting month's move  *)
(* into probabilities of 25 bps steps.                                     *)
(*                                                                         *)
(* Rates and prices are Python floats in the source.  They are modelled as *)
(* exact rationals <<numerator, denominator>> in lowest terms with a       *)
(* positive denominator; IEEE-754 rounding and the ":.3f"/":.2f" text      *)
(* rendering of the report are not modelled: an output entry carries the   *)
(* values handed to the format string.                                     *)
(***************************************************************************)
EXTENDS Integers, Sequences, FiniteSets, TLC

VARIABLES pc, idx, raised, meeting_dates, implied_rates, effr_end, effr_start,
          output, start_rate, end_rate, ret

vars == <<pc, idx, raised, meeting_dates, implied_rates, effr_end, effr_start,
          output, start_rate, end_rate, ret>>

\* ---------------------------------------------------------------- bounds
\* Quotes offered by the price source: 94.70, 94.80, ... (MaxPriceIdx+1 levels)
MaxPriceIdx == 3

\* Rates fed to calculate_probabilities on its own: 4.80, 4.85, ...
MaxRateIdx == 12

\* ------------------------------------------------- float arithmetic (exact)
Abs(n) == IF n < 0 THEN -n ELSE n

RECURSIVE GCD(_, _)
GCD(a, b) == IF b = 0 THEN a ELSE GCD(b, a % b)

\* lowest terms, positive denominator (d # 0)
RNorm(n, d) ==
    LET s == IF d < 0 THEN -1 ELSE 1
        g == GCD(Abs(n), Abs(d))
    IN  <<(s * n) \div g, (s * d) \div g>>

RInt(k) == <<k, 1>>

RAdd(x, y) == RNorm(x[1] * y[2] + y[1] * x[2], x[2] * y[2])

RSub(x, y) == RNorm(x[1] * y[2] - y[1] * x[2], x[2] * y[2])

RMul(x, y) == RNorm(x[1] * y[1], x[2] * y[2])

\* defined for y # 0 only; the caller handles ZeroDivisionError
RDiv(x, y) == RNorm(x[1] * y[2], x[2] * y[1])

RLt(x, y) == x[1] * y[2] < y[1] * x[2]

RLe(x, y) == x[1] * y[2] <= y[1] * x[2]

\* math.floor: toward negative infinity
RFloor(x) == x[1] \div x[2]

RAbs(x) == <<Abs(x[1]), x[2]>>

\* ------------------------------------------------------ module constants
CURRENT_TARGET_RATE == <<21, 4>>

RATE_CHANGE == <<1, 4>>

FOMC_MEETING_DATES == (9 :> 17) @@ (11 :> 6) @@ (12 :> 13)

\* iteration order of FOMC_MEETING_DATES (insertion-ordered dict)
MEETING_MONTHS == <<9, 11, 12>>

NON_MEETING_MONTHS == <<8, 10>>

\* ticker_symbols.keys(), in insertion order
ticker_months == <<8, 9, 10, 11, 12>>

\* None / absence of a value
None == <<>>

\* days_in_month as calculate() assumes it
DaysInMonth(month) == IF month = 12 THEN 31 ELSE 30

\* ------------------------------------------------------------ pure functions
calculate_implied_rate(contract_price) == RSub(RInt(100), contract_price)

\* the else branch repeats the cut branch's second assignment
calculate_probabilities_CopiedBranch(s, e) ==
    LET expected_change == RSub(e, s)
        num_changes == RDiv(expected_change, RATE_CHANGE)
        whole_changes == RFloor(num_changes)
        fractional_change == RAbs(RSub(num_changes, RInt(whole_changes)))
    IN  IF RLt(expected_change, RInt(0))
        THEN <<whole_changes, RSub(RInt(1), fractional_change), fractional_change>>
        ELSE <<whole_changes, fractional_change, fractional_change>>

\* int() in place of math.floor(): truncation toward zero
calculate_probabilities_Trunc(s, e) ==
    LET expected_change == RSub(e, s)
        num_changes == RDiv(expected_change, RATE_CHANGE)
        whole_changes == IF num_changes[1] < 0 THEN -((-num_changes[1]) \div num_changes[2])
                         ELSE RFloor(num_changes)
        fractional_change == RAbs(RSub(num_changes, RInt(whole_changes)))
    IN  IF RLt(expected_change, RInt(0))
        THEN <<whole_changes, RSub(RInt(1), fractional_change), fractional_change>>
        ELSE <<whole_changes, fractional_change, RSub(RInt(1), fractional_change)>>

calculate_probabilities(s, e) ==
    LET expected_change == RSub(e, s)
        num_changes == RDiv(expected_change, RATE_CHANGE)
        whole_changes == RFloor(num_changes)
        fractional_change == RAbs(RSub(num_changes, RInt(whole_changes)))
    IN  IF RLt(expected_change, RInt(0))
        THEN <<whole_changes, RSub(RInt(1), fractional_change), fractional_change>>
        ELSE <<whole_changes, fractional_change, RSub(RInt(1), fractional_change)>>

\* dict assignment d[k] = v
Put(d, k, v) == [x \in (DOMAIN d) \cup {k} |-> IF x = k THEN v ELSE d[x]]

\* ----------------------------------------------------------------- inputs
Prices == {<<9470 + 10 * k, 100>> : k \in 0..MaxPriceIdx}

Quotes == Prices \cup {None}

Rates == {RNorm(480 + 5 * k, 100) : k \in 0..MaxRateIdx}

\* an output entry; fields that a line does not print are None / 0
Entry(kind, month, a, b, w, p0, p1) ==
    [kind |-> kind, month |-> month, start |-> a, end |-> b,
     whole |-> w, p0 |-> p0, p1 |-> p1]

\* --------------------------------------------------------------- calculate
Init ==
    /\ pc = "fetch"
    /\ idx = 1
    /\ raised = "none"
    /\ meeting_dates = FOMC_MEETING_DATES
    /\ implied_rates = <<>>
    /\ effr_end = <<>>
    /\ effr_start = <<>>
    /\ output = <<>>
    /\ start_rate = None
    /\ end_rate = None
    /\ ret = None

\* lines 73-80: one iteration of the fetch loop
FetchStep ==
    /\ pc = "fetch"
    /\ \E contract_price \in Quotes :
         LET month == ticker_months[idx] IN
         IF contract_price # None
         THEN /\ implied_rates' = Put(implied_rates, month, calculate_implied_rate(contract_price))
              /\ output' = Append(output, Entry("price", month, contract_price,
                                   calculate_implied_rate(contract_price), 0, None, None))
         ELSE /\ implied_rates' = implied_rates
              /\ output' = Append(output, Entry("skip", month, None, None, 0, None, None))
    /\ IF idx < Len(ticker_months)
       THEN pc' = pc /\ idx' = idx + 1
       ELSE pc' = "nonmeeting" /\ idx' = 1
    /\ UNCHANGED <<raised, meeting_dates, effr_end, effr_start, start_rate, end_rate, ret>>

\* line 89 reading the month's own end instead of the previous month's
StartFromPrev_OwnMonth(end, i) == end[NON_MEETING_MONTHS[i]]

\* line 89: the value stored as the month's start; None stands for KeyError
StartFromPrev(end, i) ==
    LET prev_month == NON_MEETING_MONTHS[i - 1]
    IN  IF prev_month \in DOMAIN end THEN end[prev_month] ELSE None

\* lines 90-92: seed the next non-meeting month's start
SeedNext(start, end, i, month) ==
    IF i < Len(NON_MEETING_MONTHS)
    THEN Put(start, NON_MEETING_MONTHS[i + 1], end[month])
    ELSE start

\* lines 83-94: one iteration of the non-meeting loop (i is 1-based here)
NonMeetingStep ==
    /\ pc = "nonmeeting"
    /\ LET i == idx
           month == NON_MEETING_MONTHS[i]
           end1 == Put(effr_end, month, implied_rates[month])
           start1 == IF i > 1 THEN Put(effr_start, month, StartFromPrev(end1, i))
                     ELSE effr_start
           start2 == SeedNext(start1, end1, i, month)
           advance == IF i < Len(NON_MEETING_MONTHS)
                      THEN pc' = pc /\ idx' = i + 1
                      ELSE pc' = "meeting" /\ idx' = 1
       IN  IF month \notin DOMAIN implied_rates
           THEN /\ advance
                /\ UNCHANGED <<raised, effr_end, effr_start, output>>
           ELSE IF i > 1 /\ StartFromPrev(end1, i) = None
           THEN \* KeyError at line 89 leaves calculate(); line 86 has run
                /\ pc' = "aborted"
                /\ raised' = "KeyError"
                /\ idx' = idx
                /\ effr_end' = end1
                /\ UNCHANGED <<effr_start, output>>
           ELSE /\ advance
                /\ raised' = raised
                /\ effr_end' = end1
                /\ effr_start' = start2
                /\ output' = Append(output, Entry("nonmeeting", month,
                                 IF month \in DOMAIN start2 THEN start2[month] ELSE None,
                                 end1[month], 0, None, None))
    /\ UNCHANGED <<meeting_dates, implied_rates, start_rate, end_rate, ret>>

\* effr_end.get(prev_month, 0): an absent predecessor read as zero
MeetingStart_ZeroDefault(end, month) ==
    LET prev_month == month - 1
    IN  IF prev_month \in DOMAIN end THEN end[prev_month] ELSE RInt(0)

\* lines 102-106: the start rate of a meeting month
MeetingStart(end, month) ==
    LET prev_month == month - 1
    IN  IF prev_month \in DOMAIN end THEN end[prev_month] ELSE CURRENT_TARGET_RATE

\* line 112
DaysBefore(meeting_day) == meeting_day - 1

\* line 113
DaysAfter(meeting_day, days_in_month) == days_in_month - DaysBefore(meeting_day)

\* line 122 without the division by the share of days after the meeting
SolveEnd_NoRescale(implied_rate, s, before, after) ==
    RSub(implied_rate, RMul(RNorm(before, before + after), s))

\* line 122, for n_days_after_meeting # 0
SolveEnd(implied_rate, s, before, after) ==
    RDiv(RSub(implied_rate, RMul(RNorm(before, before + after), s)),
         RNorm(after, before + after))

\* lines 97-124: one iteration of the meeting loop
MeetingStep ==
    /\ pc = "meeting"
    /\ LET month == MEETING_MONTHS[idx]
           meeting_day == meeting_dates[month]
           days_in_month == DaysInMonth(month)
           start1 == Put(effr_start, month, MeetingStart(effr_end, month))
           before == DaysBefore(meeting_day)
           after == DaysAfter(meeting_day, days_in_month)
           advance == IF idx < Len(MEETING_MONTHS)
                      THEN pc' = pc /\ idx' = idx + 1
                      ELSE pc' = "probs" /\ idx' = 1
       IN  /\ effr_start' = start1
           /\ IF month \notin DOMAIN implied_rates
              THEN /\ advance
                   /\ UNCHANGED <<raised, effr_end, output>>
              ELSE IF after = 0
              THEN \* ZeroDivisionError at line 122 leaves calculate()
                   /\ pc' = "aborted"
                   /\ raised' = "ZeroDivisionError"
                   /\ idx' = idx
                   /\ UNCHANGED <<effr_end, output>>
              ELSE LET e == SolveEnd(implied_rates[month], start1[month], before, after)
                   IN  /\ advance
                       /\ raised' = raised
                       /\ effr_end' = Put(effr_end, month, e)
                       /\ output' = Append(output, Entry("solve", month, start1[month], e,
                                                          0, None, None))
    /\ UNCHANGED <<meeting_dates, implied_rates, start_rate, end_rate, ret>>

\* the hike branch printing the probabilities in the cut branch's order
ProbLines_SameOrder(month, s, e, r) == Entry("prob", month, s, e, r[1], r[2], r[3])

\* lines 138-145: the two probability lines, p0 printed with whole_changes*25
\* bps and p1 with whole_changes*25 + 25 bps
ProbLines(month, s, e, r) ==
    IF RLt(e, s)
    THEN Entry("prob", month, s, e, r[1], r[2], r[3])
    ELSE Entry("prob", month, s, e, r[1], r[3], r[2])

\* lines 127-147: one iteration of the probability loop; the last one returns
ProbStep ==
    /\ pc = "probs"
    /\ LET month == MEETING_MONTHS[idx] IN
       IF month \notin DOMAIN effr_start \/ month \notin DOMAIN effr_end
       THEN UNCHANGED <<output, start_rate, end_rate, ret>>
       ELSE /\ start_rate' = effr_start[month]
            /\ end_rate' = effr_end[month]
            /\ ret' = calculate_probabilities(effr_start[month], effr_end[month])
            /\ output' = Append(output, ProbLines(month, start_rate', end_rate', ret'))
    /\ IF idx < Len(MEETING_MONTHS)
       THEN pc' = pc /\ idx' = idx + 1
       ELSE pc' = "done" /\ idx' = idx
    /\ UNCHANGED <<raised, meeting_dates, implied_rates, effr_end, effr_start>>

Next == FetchStep \/ NonMeetingStep \/ MeetingStep \/ ProbStep

Spec == Init /\ [][Next]_vars

\* ------------------------------------- calculate under a configured calendar
\* The decision-day table is configuration; besides the source's day each
\* meeting month may be given the day that leaves no day after the decision.
DecisionDays(month) == {FOMC_MEETING_DATES[month], DaysInMonth(month) + 1}

InitCal ==
    /\ pc = "fetch"
    /\ idx = 1
    /\ raised = "none"
    /\ meeting_dates \in [DOMAIN FOMC_MEETING_DATES -> 1..32]
    /\ \A month \in DOMAIN FOMC_MEETING_DATES : meeting_dates[month] \in DecisionDays(month)
    /\ implied_rates = <<>>
    /\ effr_end = <<>>
    /\ effr_start = <<>>
    /\ output = <<>>
    /\ start_rate = None
    /\ end_rate = None
    /\ ret = None

SpecCal == InitCal /\ [][Next]_vars

\* ------------------------------------ calculate_probabilities on its own
InitProb ==
    /\ pc = "call"
    /\ idx = 1
    /\ raised = "none"
    /\ meeting_dates = FOMC_MEETING_DATES
    /\ implied_rates = <<>>
    /\ effr_end = <<>>
    /\ effr_start = <<>>
    /\ output = <<>>
    /\ start_rate \in Rates
    /\ end_rate \in Rates
    /\ ret = None

CallProbabilities ==
    /\ pc = "call"
    /\ ret' = calculate_probabilities(start_rate, end_rate)
    /\ pc' = "returned"
    /\ UNCHANGED <<idx, raised, meeting_dates, implied_rates, effr_end, effr_start,
                   output, start_rate, end_rate>>

NextProb == CallProbabilities

SpecProb == InitProb /\ [][NextProb]_vars

\* ------------------------------------------------------------- properties
Months == {ticker_months[k] : k \in DOMAIN ticker_months}

MeetingMonths == {MEETING_MONTHS[k] : k \in DOMAIN MEETING_MONTHS}

EntriesOf(kind) == {output[k] : k \in {j \in DOMAIN output : output[j].kind = kind}}

\* the meeting loop has finished its iteration for MEETING_MONTHS[k]
MeetingHandled(k) ==
    \/ pc \in {"probs", "done"}
    \/ pc = "meeting" /\ idx > k

\* C1: whatever quotes are present or absent, calculate never leaves through
\* an exception; it runs to its return with the per-month report.
C1_AlwaysCompletes == raised = "none"

\* C2: when calculate has returned, a month without a quote has neither a
\* start_rate nor an end_rate, and no probability outcome.
C2_MissingQuoteNoAnchor ==
    pc = "done" =>
        \A m \in Months :
            m \notin DOMAIN implied_rates =>
                /\ m \notin DOMAIN effr_start
                /\ m \notin DOMAIN effr_end
                /\ \A e \in EntriesOf("prob") : e.month # m

\* C3: when calculate has returned, a month's start_rate equals the previous
\* month's end_rate wherever both exist; and a non-meeting month never has a
\* start_rate seeded by an earlier non-meeting month across a meeting month.
C3_ChainedAnchors ==
    /\ pc = "done" =>
          \A m \in Months :
              (m \in DOMAIN effr_end /\ m + 1 \in DOMAIN effr_start)
                  => effr_start[m + 1] = effr_end[m]
    /\ pc = "nonmeeting" =>
          \A k \in 2..Len(NON_MEETING_MONTHS) :
              (\E mm \in MeetingMonths :
                   NON_MEETING_MONTHS[k - 1] < mm /\ mm < NON_MEETING_MONTHS[k])
                  => NON_MEETING_MONTHS[k] \notin DOMAIN effr_start

\* C4: a meeting month the meeting loop has handled has a start_rate; it is
\* the previous month's end_rate when that is known and the current target
\* rate otherwise, and it is the start the solver's line reports.
C4_MeetingStartRate ==
    \A k \in DOMAIN MEETING_MONTHS :
        LET m == MEETING_MONTHS[k] IN
        MeetingHandled(k) =>
            /\ m \in DOMAIN effr_start
            /\ effr_start[m] # None
            /\ effr_start[m] = IF m - 1 \in DOMAIN effr_end THEN effr_end[m - 1]
                               ELSE CURRENT_TARGET_RATE
            /\ \A e \in EntriesOf("solve") : e.month = m => e.start = effr_start[m]

C4_Witness ==
    /\ pc = "done"
    /\ 8 \in DOMAIN effr_end
    /\ effr_start[9] = effr_end[8]
    /\ effr_end[8] # CURRENT_TARGET_RATE
    /\ 10 \notin DOMAIN effr_end
    /\ effr_start[11] = CURRENT_TARGET_RATE
    /\ 11 \in DOMAIN effr_end
    /\ effr_start[12] = effr_end[11]

\* C5: for a solved meeting month, the day-weighted average of its start
\* rate (decision_day - 1 days) and its solved end rate (the remaining days)
\* is the month's implied rate.
C5_WeightedAverage ==
    \A e \in EntriesOf("solve") :
        LET days_before == meeting_dates[e.month] - 1
            days_after == DaysInMonth(e.month) - days_before
        IN  /\ days_after > 0
            /\ e.end = effr_end[e.month]
            /\ RDiv(RAdd(RMul(RInt(days_before), e.start), RMul(RInt(days_after), e.end)),
                    RInt(days_before + days_after)) = implied_rates[e.month]

C5_Witness ==
    /\ pc = "done"
    /\ \A m \in MeetingMonths : \E e \in EntriesOf("solve") : e.month = m /\ e.end # e.start

C7_ProbabilitiesSumToOne ==
    pc = "returned" =>
        /\ RLe(RInt(0), ret[2]) /\ RLe(ret[2], RInt(1))
        /\ RLe(RInt(0), ret[3]) /\ RLe(ret[3], RInt(1))
        /\ RAdd(ret[2], ret[3]) = RInt(1)

C7_Witness ==
    /\ pc = "returned"
    /\ ~RLt(end_rate, start_rate)
    /\ ret[2] # RInt(0)
    /\ ret[2] # ret[3]

\* C8: whole_steps is the floor of the change in steps (the integer w with
\* w*step <= change < (w+1)*step), fractional = num_steps - whole_steps is
\* in [0,1); a negative change returns (1 - fractional, fractional), any
\* other change (fractional, 1 - fractional).  5.25 -> 4.90 gives
\* (-2, 0.4, 0.6) and 5.25 -> 5.00 gives (-1, 1, 0).
C8_FloorAndBranches ==
    pc = "returned" =>
        LET change == RSub(end_rate, start_rate)
            w == ret[1]
            fractional == RSub(RDiv(change, RATE_CHANGE), RInt(w))
        IN  /\ RLe(RMul(RInt(w), RATE_CHANGE), change)
            /\ RLt(change, RMul(RInt(w + 1), RATE_CHANGE))
            /\ RLe(RInt(0), fractional) /\ RLt(fractional, RInt(1))
            /\ RLt(change, RInt(0)) =>
                   ret[2] = RSub(RInt(1), fractional) /\ ret[3] = fractional
            /\ ~RLt(change, RInt(0)) =>
                   ret[2] = fractional /\ ret[3] = RSub(RInt(1), fractional)
            /\ (start_rate = <<21, 4>> /\ end_rate = <<49, 10>>) =>
                   ret = <<-2, <<2, 5>>, <<3, 5>>>>
            /\ (start_rate = <<21, 4>> /\ end_rate = <<5, 1>>) =>
                   ret = <<-1, <<1, 1>>, <<0, 1>>>>

C8_Witness ==
    /\ pc = "returned"
    /\ start_rate = <<21, 4>>
    /\ end_rate = <<49, 10>>
    /\ ret[1] = -2

\* C9: a step of calculate never changes a start_rate that is already
\* assigned to a different value, nor removes it.
C9_StartRateStable ==
    [][\A m \in DOMAIN effr_start :
           m \in DOMAIN effr_start' /\ effr_start'[m] = effr_start[m]]_vars

\* both non-meeting months had a quote, so line 92 (for month 8) and line 89
\* (for month 10) have both written month 10's start_rate
C9_Witness ==
    /\ pc = "meeting"
    /\ idx = 1
    /\ 8 \in DOMAIN effr_end
    /\ 10 \in DOMAIN effr_end
    /\ effr_end[8] # effr_end[10]
    /\ effr_start[10] = effr_end[8]

\* C10: in every probability report, the probability printed for the
\* whole_steps*25 bps move (p0) and the one printed for the
\* (whole_steps+1)*25 bps move (p1) have mean (end - start) / step.
C10_ReportedMean ==
    \A e \in EntriesOf("prob") :
        RAdd(RMul(RInt(e.whole), e.p0), RMul(RInt(e.whole + 1), e.p1))
            = RDiv(RSub(e.end, e.start), RATE_CHANGE)

C10_Witness ==
    /\ pc = "done"
    /\ \E e \in EntriesOf("prob") : RLt(e.end, e.start) /\ e.p0 # e.p1 /\ e.p1 # RInt(0)
    /\ \E e \in EntriesOf("prob") : RLt(e.start, e.end) /\ e.p0 # e.p1 /\ e.p1 # RInt(0)

====
